---- MODULE Spec2Model ----
(***************************************************************************)
(* Model of the catalog browser's free-text search (src/src/App.tsx):      *)
(* parseQuery, scoreProduct, applyAIQuery and the App component's state.   *)
(*                                                                         *)
(* Text is a sequence of one-character strings.  Numbers are fixed-point:  *)
(* prices, ratings and every Number(...) read from a query are counted in  *)
(* hundredths (89.99 is 8999, a rating of 4.5 is 450); scores are counted  *)
(* in ten-thousandths, with the fraction that nprice contributes kept      *)
(* exact (see the score operators).  The arithmetic is exact decimal       *)
(* arithmetic: the rounding of IEEE doubles is not modelled.  An optional  *)
(* field (maxPrice?: number, or the "" of an empty facet input) is a set:  *)
(* {} when absent, {v} when set.                                           *)
(***************************************************************************)
EXTENDS Integers, Sequences, FiniteSets, TLC

VARIABLES
    q,            \* parseQuery: the text it is given
    parsed,       \* parseQuery: the Query it returned for q
    all,          \* applyAIQuery: the candidate array
    query,        \* applyAIQuery: the parsed Query the candidates are ranked by
    ranked,       \* applyAIQuery: the array it returned
    nlpQuery,     \* App: useState("")
    category,     \* App: useState("")
    maxPrice,     \* App: useState("")
    minRating,    \* App: useState("")
    baseFiltered, \* App: the memoized facet-filtered array
    finalList     \* App: the memoized displayed array

parseVars == <<q, parsed>>
rankVars  == <<all, query, ranked>>
appVars   == <<nlpQuery, category, maxPrice, minRating, baseFiltered, finalList>>
vars      == <<q, parsed, all, query, ranked,
               nlpQuery, category, maxPrice, minRating, baseFiltered, finalList>>

(***************************************************************************)
(* Characters                                                              *)
(***************************************************************************)
LowerLetters ==
    <<"a","b","c","d","e","f","g","h","i","j","k","l","m",
      "n","o","p","q","r","s","t","u","v","w","x","y","z">>
UpperLetters ==
    <<"A","B","C","D","E","F","G","H","I","J","K","L","M",
      "N","O","P","Q","R","S","T","U","V","W","X","Y","Z">>
DigitChars == <<"0","1","2","3","4","5","6","7","8","9">>

Range(f) == {f[i] : i \in DOMAIN f}

\* F applied to the value of e, with e evaluated once (const x = e; F(x))
With(e, F(_)) == CHOOSE r \in {F(x) : x \in {e}} : TRUE
SetMin(S) == CHOOSE x \in S : \A y \in S : x <= y
SetMax(S) == CHOOSE x \in S : \A y \in S : x >= y

\* \d
DigitSet == Range(DigitChars)
IsDigit(c) == c \in DigitSet
\* \s
SpaceSet == {" ", "\t", "\n", "\r"}
IsSpace(c) == c \in SpaceSet
\* \w
WordCharSet == Range(LowerLetters) \cup Range(UpperLetters) \cup Range(DigitChars) \cup {"_"}
IsWordChar(c) == c \in WordCharSet

\* one character of String.prototype.toLowerCase
LowerOf == [i \in DOMAIN UpperLetters |-> <<UpperLetters[i], LowerLetters[i]>>]
LowerMap == [c \in Range(UpperLetters) |->
                (CHOOSE pr \in Range(LowerOf) : pr[1] = c)[2]]
LowerChar(c) == IF c \in DOMAIN LowerMap THEN LowerMap[c] ELSE c

toLowerCase(s) == [i \in DOMAIN s |-> LowerChar(s[i])]

\* the character at position i, "" outside the text
At(s, i) == IF i \in DOMAIN s THEN s[i] ELSE ""

\* the first n characters of the text as one string, to compare it with a
\* literal of the source
RECURSIVE StrUpTo(_, _)
StrUpTo(s, n) == IF n = 0 THEN "" ELSE StrUpTo(s, n - 1) \o s[n]
Str(s) == StrUpTo(s, Len(s))

\* String.prototype.trim: from the first to the last character that is not
\* white space
trim(s) ==
    LET inked == {i \in DOMAIN s : ~IsSpace(s[i])}
    IN  IF inked = {} THEN <<>> ELSE SubSeq(s, SetMin(inked), SetMax(inked))

(***************************************************************************)
(* Pieces of the regular expressions.  A matcher takes a position and      *)
(* gives the position after the match, or 0 when there is none.  Every     *)
(* quantifier below is matched greedily without backtracking, which is     *)
(* exact for these expressions: what follows a quantified piece can never  *)
(* start with a character the piece itself accepts.                        *)
(***************************************************************************)
\* a literal under the /i flag
RECURSIVE LowerStr(_, _, _)
LowerStr(s, i, n) ==
    IF n = 0 THEN "" ELSE LowerStr(s, i, n - 1) \o LowerChar(s[i + n - 1])
Lit(s, i, w) ==
    /\ i >= 1
    /\ i + Len(w) - 1 <= Len(s)
    /\ LowerStr(s, i, Len(w)) = w

\* \s*
RECURSIVE SkipSpaces(_, _)
SkipSpaces(s, i) == IF IsSpace(At(s, i)) THEN SkipSpaces(s, i + 1) ELSE i

\* \d* : the position after the run of digits at i
RECURSIVE DigitsEnd(_, _)
DigitsEnd(s, i) == IF IsDigit(At(s, i)) THEN DigitsEnd(s, i + 1) ELSE i

\* \d+(?:\.\d+)?
NumEnd(s, i) ==
    LET e == DigitsEnd(s, i)
    IN  IF e = i THEN 0
        ELSE IF At(s, e) = "." /\ DigitsEnd(s, e + 1) > e + 1
             THEN DigitsEnd(s, e + 1)
             ELSE e

\* \b : a word character on exactly one side of position i
WordBoundary(s, i) == IsWordChar(At(s, i - 1)) # IsWordChar(At(s, i))

\* w1\s+w2
PhraseEnd(s, i, w1, w2) ==
    LET j == i + Len(w1)
        k == SkipSpaces(s, j)
    IN  IF Lit(s, i, w1) /\ k > j /\ Lit(s, k, w2) THEN k + Len(w2) ELSE 0

\* w1[-\s]?w2
CompoundEnd(s, i, w1, w2) ==
    LET j == i + Len(w1)
        k == IF At(s, j) = "-" \/ IsSpace(At(s, j)) THEN j + 1 ELSE j
    IN  IF Lit(s, i, w1) /\ Lit(s, k, w2) THEN k + Len(w2) ELSE 0

WordEnd(s, i, w) == IF Lit(s, i, w) THEN i + Len(w) ELSE 0

\* the first alternative of (a|b|...) that matches: ends holds each
\* alternative's end position, in the order of the alternation
FirstNonZero(ends) ==
    IF \A k \in DOMAIN ends : ends[k] = 0 THEN 0
    ELSE ends[SetMin({k \in DOMAIN ends : ends[k] # 0})]
FirstEnd(ends) == With(ends, FirstNonZero)

\* Number(text) of a captured \d+(?:\.\d+)? , in hundredths (a third and
\* later fraction digit is below the model's resolution)
DigitVal(c) == (CHOOSE i \in DOMAIN DigitChars : DigitChars[i] = c) - 1
RECURSIVE IntVal(_, _)
IntVal(w, n) == IF n = 0 THEN 0 ELSE IntVal(w, n - 1) * 10 + DigitVal(w[n])
NumberOf(w) ==
    LET e == DigitsEnd(w, 1)
        f1 == IF IsDigit(At(w, e + 1)) THEN DigitVal(w[e + 1]) ELSE 0
        f2 == IF IsDigit(At(w, e + 2)) THEN DigitVal(w[e + 2]) ELSE 0
    IN  IntVal(w, e - 1) * 100 + f1 * 10 + f2
Number(w) == With(w, NumberOf)

\* \s*\$?(\d+(?:\.\d+)?) at i: <<number, end>> or <<>>
PriceFrom(s, k) ==
    LET e == NumEnd(s, k)
    IN  IF e = 0 THEN <<>> ELSE <<Number(SubSeq(s, k, e - 1)), e>>
PriceAt(s, i) ==
    LET j == SkipSpaces(s, i)
        found(k) == PriceFrom(s, k)
    IN  With(IF At(s, j) = "$" THEN j + 1 ELSE j, found)

\* RegExp.prototype.exec without the g flag: the match at the leftmost
\* position that has one; {} for null
Leftmost(s, M(_, _)) ==
    LET ps == {p \in 1..Len(s) : M(s, p) # <<>>}
    IN  IF ps = {} THEN {} ELSE {M(s, SetMin(ps))}

(***************************************************************************)
(* parseQuery                                                              *)
(***************************************************************************)
STOPWORDS ==
    {"the","a","an","with","and","for","under","below","less","than","between",
     "over","above","at","least","most","good","great","high","reviews","review",
     "stars","star","me","show","find","in","on","of","to",
     "expensive","premium","highend","high-end","pricey","pricy","top-tier","toptier",
     "cheap","budget","affordable","inexpensive","low-cost","lowcost","low-end","lowend"}

CATEGORY_HINTS == <<"shoes","electronics","apparel","accessories","watches","bags">>

\* /between\s*\$?(\d+(?:\.\d+)?)\s*(?:and|-|to)\s*\$?(\d+(?:\.\d+)?)/i at p:
\* <<between[1], between[2]>> as numbers, or <<>>
BetweenAt(s, p) ==
    IF ~Lit(s, p, "between") THEN <<>>
    ELSE LET a == PriceAt(s, p + Len("between"))
         IN  IF a = <<>> THEN <<>>
             ELSE LET k == SkipSpaces(s, a[2])
                      e == FirstEnd(<<WordEnd(s, k, "and"), WordEnd(s, k, "-"),
                                      WordEnd(s, k, "to")>>)
                      b == PriceAt(s, e)
                  IN  IF e = 0 \/ b = <<>> THEN <<>> ELSE <<a[1], b[1]>>
between(s) == Leftmost(s, BetweenAt)

\* /(under|below|less\s+than|cheaper\s+than)\s*\$?(\d+(?:\.\d+)?)/i at p:
\* <<under[2]>> as a number, or <<>>
UnderAt(s, p) ==
    LET e == FirstEnd(<<WordEnd(s, p, "under"), WordEnd(s, p, "below"),
                        PhraseEnd(s, p, "less", "than"),
                        PhraseEnd(s, p, "cheaper", "than")>>)
        x == PriceAt(s, e)
    IN  IF e = 0 \/ x = <<>> THEN <<>> ELSE <<x[1]>>
under(s) == Leftmost(s, UnderAt)

\* /(over|above|more\s+than|at\s+least)\s*\$?(\d+(?:\.\d+)?)/i at p
OverAt(s, p) ==
    LET e == FirstEnd(<<WordEnd(s, p, "over"), WordEnd(s, p, "above"),
                        PhraseEnd(s, p, "more", "than"),
                        PhraseEnd(s, p, "at", "least")>>)
        x == PriceAt(s, e)
    IN  IF e = 0 \/ x = <<>> THEN <<>> ELSE <<x[1]>>
over(s) == Leftmost(s, OverAt)

\* /(\d(?:\.\d)?)\s*stars?/i at p: <<starsNum[1]>> as a number, or <<>>
StarsAt(s, p) ==
    LET e == IF At(s, p + 1) = "." /\ IsDigit(At(s, p + 2)) THEN p + 3 ELSE p + 1
    IN  IF IsDigit(At(s, p)) /\ Lit(s, SkipSpaces(s, e), "star")
        THEN <<Number(SubSeq(s, p, e - 1))>>
        ELSE <<>>
starsNum(s) == Leftmost(s, StarsAt)

\* /\b(good|great|high)\s+reviews?\b/i.test(s)
impliesGood(s) ==
    \E p \in 1..Len(s) :
        LET e == FirstEnd(<<PhraseEnd(s, p, "good", "review"),
                            PhraseEnd(s, p, "great", "review"),
                            PhraseEnd(s, p, "high", "review")>>)
            f == IF LowerChar(At(s, e)) = "s" THEN e + 1 ELSE e
        IN  WordBoundary(s, p) /\ e # 0 /\ WordBoundary(s, f)

\* /\b(expensive|premium|high[-\s]?end|pricey|pricy|top[-\s]?tier)\b/i.test(s)
HighEnd(s, p) ==
    LET e == FirstEnd(<<WordEnd(s, p, "expensive"), WordEnd(s, p, "premium"),
                        CompoundEnd(s, p, "high", "end"), WordEnd(s, p, "pricey"),
                        WordEnd(s, p, "pricy"), CompoundEnd(s, p, "top", "tier")>>)
    IN  IF WordBoundary(s, p) /\ e # 0 /\ WordBoundary(s, e) THEN e ELSE 0
wantsHigh(s) == \E p \in 1..Len(s) : HighEnd(s, p) # 0

\* /\b(cheap|budget|affordable|inexpensive|low[-\s]?cost|low[-\s]?end)\b/i.test(s)
LowEnd(s, p) ==
    LET e == FirstEnd(<<WordEnd(s, p, "cheap"), WordEnd(s, p, "budget"),
                        WordEnd(s, p, "affordable"), WordEnd(s, p, "inexpensive"),
                        CompoundEnd(s, p, "low", "cost"), CompoundEnd(s, p, "low", "end")>>)
    IN  IF WordBoundary(s, p) /\ e # 0 /\ WordBoundary(s, e) THEN e ELSE 0
wantsLow(s) == \E p \in 1..Len(s) : LowEnd(s, p) # 0

\* the conditional with the cheap vocabulary tested first
priceIntentLowFirst(s) ==
    IF wantsLow(s) THEN "low" ELSE IF wantsHigh(s) THEN "high" ELSE "undefined"

\* wantsHigh ? "high" : wantsLow ? "low" : undefined
priceIntentOf(s) ==
    IF wantsHigh(s) THEN "high" ELSE IF wantsLow(s) THEN "low" ELSE "undefined"

MathMin(x, y) == IF x <= y THEN x ELSE y
MathMax(x, y) == IF x >= y THEN x ELSE y

\* the chain with the under branch tested before the between branch
priceRangeUnderFirst(betweenMatch, underMatch, overMatch) ==
    IF underMatch # {}
    THEN [minPrice |-> {}, maxPrice |-> {u[1] : u \in underMatch}]
    ELSE IF betweenMatch # {}
    THEN [minPrice |-> {MathMin(b[1], b[2]) : b \in betweenMatch},
          maxPrice |-> {MathMax(b[1], b[2]) : b \in betweenMatch}]
    ELSE IF overMatch # {}
    THEN [minPrice |-> {u[1] : u \in overMatch}, maxPrice |-> {}]
    ELSE [minPrice |-> {}, maxPrice |-> {}]

\* the if / else-if chain over the three matches: the optional bounds it
\* leaves in minPrice and maxPrice
priceRangeOf(betweenMatch, underMatch, overMatch) ==
    IF betweenMatch # {}
    THEN [minPrice |-> {MathMin(b[1], b[2]) : b \in betweenMatch},
          maxPrice |-> {MathMax(b[1], b[2]) : b \in betweenMatch}]
    ELSE IF underMatch # {}
    THEN [minPrice |-> {}, maxPrice |-> {u[1] : u \in underMatch}]
    ELSE IF overMatch # {}
    THEN [minPrice |-> {u[1] : u \in overMatch}, maxPrice |-> {}]
    ELSE [minPrice |-> {}, maxPrice |-> {}]
priceRange(s) == priceRangeOf(between(s), under(s), over(s))

\* starsNum ? Number(starsNum[1]) : impliesGood ? 4 : undefined
minRatingOf(s) ==
    IF starsNum(s) # {} THEN {n[1] : n \in starsNum(s)}
    ELSE IF impliesGood(s) THEN {400}
    ELSE {}

\* .replace(/[^a-z0-9\s-]/g, " ")
KeptSet == Range(LowerLetters) \cup DigitSet \cup SpaceSet \cup {"-"}
replaceOther(s) ==
    [i \in DOMAIN s |->
        IF s[i] \in KeptSet THEN s[i] ELSE " "]

\* .split(/\s+/): an empty text gives one empty token, and a text that
\* starts or ends with white space gives an empty first or last token
RECURSIVE split(_)
split(s) ==
    LET ps == {i \in 1..Len(s) : IsSpace(s[i])}
        i == SetMin(ps)
        more(rest) == <<SubSeq(s, 1, i - 1)>> \o split(rest)
    IN  IF ps = {} THEN <<s>>
        ELSE With(SubSeq(s, SkipSpaces(s, i), Len(s)), more)

\* w.replace(/-/g, "")
NotHyphen(c) == c # "-"
stripHyphens(w) == SelectSeq(w, NotHyphen)

\* w && !STOPWORDS.has(w) && !/^\d+(\.\d+)?$/.test(w)
isKeyword(w) ==
    /\ w # <<>>
    /\ Str(w) \notin STOPWORDS
    /\ NumEnd(w, 1) # Len(w) + 1

keywordsFrom(tokens) ==
    SelectSeq([i \in DOMAIN tokens |-> stripHyphens(tokens[i])], isKeyword)
keywordsOf(s) ==
    With(replaceOther(toLowerCase(s)), LAMBDA t : With(split(t), keywordsFrom))

\* parseQuery from const s = q.trim() on
parseTrimmed(s) ==
    priceRange(s) @@
    [minRating   |-> minRatingOf(s),
     keywords    |-> keywordsOf(s),
     priceIntent |-> priceIntentOf(s)]

parseQuery(text) == With(trim(text), parseTrimmed)

(***************************************************************************)
(* Scores.  A score is u + n/d ten-thousandths with 0 <= n < d: u counts   *)
(* the constant terms and the rating and price biases, n/d is the fraction *)
(* left by the nprice term.  nprice itself is the fraction num/den.        *)
(***************************************************************************)
ScoreOf(units) == [u |-> units, n |-> 0, d |-> 1]

\* s + units ten-thousandths
Plus(s, units) == [s EXCEPT !.u = @ + units]

\* s + 3 * num/den, for a score s that has no fraction yet
PlusThree(s, num, den) ==
    [u |-> s.u + (30000 * num) \div den, n |-> (30000 * num) % den, d |-> den]

\* a > b, a = b on scores
ScoreGt(a, b) == a.u > b.u \/ (a.u = b.u /\ a.n * b.d > b.n * a.d)
ScoreEq(a, b) == a.u = b.u /\ a.n * b.d = b.n * a.d

\* the sign of x - y on nprice fractions
FracCmp(x, y) ==
    IF x.num * y.den > y.num * x.den THEN 1
    ELSE IF x.num * y.den < y.num * x.den THEN -1 ELSE 0

Sign(x) == IF x > 0 THEN 1 ELSE IF x < 0 THEN -1 ELSE 0

\* hay.includes(k)
includes(hay, k) ==
    \E i \in 1..(Len(hay) - Len(k) + 1) : SubSeq(hay, i, i + Len(k) - 1) = k

\* query.keywords.forEach(k => { if (hay.includes(k)) s += 2.5; }), through
\* the first n keywords
RECURSIVE keywordScore(_, _, _)
keywordScore(hay, keywords, n) ==
    IF n = 0 THEN ScoreOf(0)
    ELSE IF includes(hay, keywords[n])
         THEN Plus(keywordScore(hay, keywords, n - 1), 25000)
         ELSE keywordScore(hay, keywords, n - 1)

\* CATEGORY_HINTS.some(h => query.keywords.includes(h) && h === catLower)
categoryHint(keywords, catLower) ==
    \E j \in DOMAIN CATEGORY_HINTS :
        /\ \E i \in DOMAIN keywords : Str(keywords[i]) = CATEGORY_HINTS[j]
        /\ CATEGORY_HINTS[j] = Str(catLower)

\* the bonus with a strict comparison, p.price < query.maxPrice
maxPriceBonusStrict(p, qy) ==
    IF qy.maxPrice # {} /\ (\A x \in qy.maxPrice : p.price < x) THEN 20000 ELSE 0

\* if (query.maxPrice != null && p.price <= query.maxPrice) s += 2
maxPriceBonus(p, qy) ==
    IF qy.maxPrice # {} /\ (\A x \in qy.maxPrice : p.price <= x) THEN 20000 ELSE 0

\* if (query.minPrice != null && p.price >= query.minPrice) s += 1.5
minPriceBonus(p, qy) ==
    IF qy.minPrice # {} /\ (\A x \in qy.minPrice : p.price >= x) THEN 15000 ELSE 0

\* the bonus with the comparison reversed, p.rating <= query.minRating
minRatingBonusBelow(p, qy) ==
    IF qy.minRating # {} /\ (\A x \in qy.minRating : p.rating <= x) THEN 20000 ELSE 0

\* if (query.minRating != null && p.rating >= query.minRating) s += 2
minRatingBonus(p, qy) ==
    IF qy.minRating # {} /\ (\A x \in qy.minRating : p.rating >= x) THEN 20000 ELSE 0

scoreProduct(p, qy, nprice) ==
    LET catLower == toLowerCase(p.category)
        matches(hay) == keywordScore(hay, qy.keywords, Len(qy.keywords))
        s1 == With(toLowerCase(p.name \o <<" ">> \o p.description \o <<" ">> \o p.category),
                   matches)
        s2 == Plus(s1, IF categoryHint(qy.keywords, catLower) THEN 25000 ELSE 0)
        s3 == Plus(s2, maxPriceBonus(p, qy))
        s4 == Plus(s3, minPriceBonus(p, qy))
        s5 == Plus(s4, minRatingBonus(p, qy))
        \* s += nprice * 3 and s += (1 - nprice) * 3, the numerators over nprice.den
        high == IF qy.priceIntent = "high" THEN nprice.num ELSE 0
        low  == IF qy.priceIntent = "low" THEN nprice.den - nprice.num ELSE 0
        s7 == PlusThree(s5, high + low, nprice.den)
        s8 == Plus(s7, 20 * p.rating)
    IN  Plus(s8, 0 - p.price)

\* the comparator without its rating tie-break
compareNoRating(a, b, priceIntent) ==
    IF ~ScoreEq(b.s, a.s) THEN (IF ScoreGt(b.s, a.s) THEN 1 ELSE -1)
    ELSE IF priceIntent = "high" /\ FracCmp(b.nprice, a.nprice) # 0
    THEN FracCmp(b.nprice, a.nprice)
    ELSE IF priceIntent = "low" /\ FracCmp(b.nprice, a.nprice) # 0
    THEN FracCmp(a.nprice, b.nprice)
    ELSE Sign(a.p.price - b.p.price)

\* the comparator given to sort, as the sign of what it returns
compare(a, b, priceIntent) ==
    IF ~ScoreEq(b.s, a.s) THEN (IF ScoreGt(b.s, a.s) THEN 1 ELSE -1)
    ELSE IF priceIntent = "high" /\ FracCmp(b.nprice, a.nprice) # 0
    THEN FracCmp(b.nprice, a.nprice)
    ELSE IF priceIntent = "low" /\ FracCmp(b.nprice, a.nprice) # 0
    THEN FracCmp(a.nprice, b.nprice)
    ELSE IF b.p.rating # a.p.rating THEN Sign(b.p.rating - a.p.rating)
    ELSE Sign(a.p.price - b.p.price)

\* Array.prototype.sort, which is stable: x goes behind every element it
\* does not have to precede
insert(sorted, x, priceIntent) ==
    LET behind == {i \in DOMAIN sorted : compare(x, sorted[i], priceIntent) >= 0}
        k == IF behind = {} THEN 0 ELSE SetMax(behind)
    IN  SubSeq(sorted, 1, k) \o <<x>> \o SubSeq(sorted, k + 1, Len(sorted))
RECURSIVE sortUpTo(_, _, _)
sortUpTo(xs, n, priceIntent) ==
    LET place(sorted) == insert(sorted, xs[n], priceIntent)
    IN  IF n = 0 THEN <<>> ELSE With(sortUpTo(xs, n - 1, priceIntent), place)
sort(xs, priceIntent) == sortUpTo(xs, Len(xs), priceIntent)

\* the filter with x.s >= 0.5
atOrAboveThreshold(x) == ~ScoreGt(ScoreOf(5000), x.s)

\* x.s > 0.5
aboveThreshold(x) == ScoreGt(x.s, ScoreOf(5000))

\* all.map(p => { nprice, s; return { p, s, nprice } }) with min, max and
\* span of the prices.  Field i is the candidate's position in `all`; it
\* stands for the identity of the object and is read by no code.
mapScored(items, qy) ==
    LET prices == {items[i].price : i \in DOMAIN items}
        min == SetMin(prices)
        max == SetMax(prices)
        span == IF max - min > 100 THEN max - min ELSE 100
    IN  [i \in DOMAIN items |->
            LET nprice == [num |-> items[i].price - min, den |-> span]
            IN  [p |-> items[i], s |-> scoreProduct(items[i], qy, nprice),
                 nprice |-> nprice, i |-> i]]

\* the array `scored` before .map(x => x.p): the candidates with their score
\* and nprice, filtered and sorted
scoredOf(items, qy) ==
    LET sorted(kept) == sort(kept, qy.priceIntent)
    IN  With(SelectSeq(mapScored(items, qy), aboveThreshold), sorted)

\* applyAIQuery returning `scored` even when it is empty
rankNoFallback(items, qy) ==
    LET result(scored) == [k \in DOMAIN scored |-> scored[k].p]
    IN  IF items = <<>> THEN items ELSE With(scoredOf(items, qy), result)

\* applyAIQuery falling back to the candidates in ranked order
rankSortedFallback(items, qy) ==
    LET byRank(mapped) == sort(mapped, qy.priceIntent)
        fallback == With(mapScored(items, qy), byRank)
        result(scored) ==
            IF scored # <<>> THEN [k \in DOMAIN scored |-> scored[k].p]
            ELSE [k \in DOMAIN fallback |-> fallback[k].p]
    IN  IF items = <<>> THEN items ELSE With(scoredOf(items, qy), result)

\* applyAIQuery once the query is parsed
rank(items, qy) ==
    LET result(scored) ==
            IF scored # <<>> THEN [k \in DOMAIN scored |-> scored[k].p] ELSE items
    IN  IF items = <<>> THEN items ELSE With(scoredOf(items, qy), result)

applyAIQuery(items, text) ==
    LET ranking(parsedQuery) == rank(items, parsedQuery)
    IN  IF items = <<>> THEN items ELSE With(parseQuery(text), ranking)

\* the contents of `all` had the candidates been sorted in place before the
\* threshold filter
inputSortedInPlace(items, qy) ==
    LET byRank(mapped) == sort(mapped, qy.priceIntent)
        ordered == With(mapScored(items, qy), byRank)
    IN  [k \in DOMAIN ordered |-> ordered[k].p]

\* the contents of the array `all` when applyAIQuery returns: map and filter
\* build new arrays, and sort works in place on the array filter built
inputAfterRank(items, qy) == items
inputAfter(items, text) ==
    LET left(parsedQuery) == inputAfterRank(items, parsedQuery)
    IN  IF items = <<>> THEN items ELSE With(parseQuery(text), left)

(***************************************************************************)
(* The candidates and parsed queries applyAIQuery is run on: arrays of     *)
(* up to MaxItems of the items below, repetitions included.                *)
(***************************************************************************)
MaxItems == 3

Item(id, name, price, cat, rating, description) ==
    [id |-> id, name |-> name, price |-> price, category |-> cat,
     rating |-> rating, description |-> description]

Items ==
    {Item("a", <<"s","h","o","e">>, 0, <<"S","h","o","e","s">>, 450, <<"r","u","n">>),
     Item("b", <<"b","a","g">>, 5000, <<"B","a","g","s">>, 500, <<"l","o","w">>),
     Item("c", <<"b","a","g">>, 5000, <<"B","a","g","s">>, 500, <<"l","o","w">>),
     Item("d", <<"b","a","g">>, 0, <<"B","a","g","s">>, 250, <<"l","o","w">>),
     Item("e", <<"s","h","o","e">>, 10000, <<"S","h","o","e","s">>, 450, <<"r","u","n">>)}

RECURSIVE ItemSeqs(_)
ItemSeqs(n) ==
    IF n = 0 THEN {<<>>}
    ELSE ItemSeqs(n - 1) \cup {Append(xs, x) : xs \in {ys \in ItemSeqs(n - 1) : Len(ys) = n - 1}, x \in Items}

QueryBounds ==
    {[maxPrice |-> {}, minPrice |-> {}, minRating |-> {}],
     [maxPrice |-> {5000}, minPrice |-> {}, minRating |-> {}],
     [maxPrice |-> {}, minPrice |-> {}, minRating |-> {450}],
     [maxPrice |-> {}, minPrice |-> {5000}, minRating |-> {450}]}

Queries ==
    {b @@ [keywords |-> k, priceIntent |-> pi] :
        b \in QueryBounds,
        k \in {<<>>, <<<<"s","h","o","e","s">>>>, <<<<"b","a","g">>, <<"b","a","g">>>>},
        pi \in {"undefined", "high", "low"}}

(***************************************************************************)
(* The catalog (export const products)                                     *)
(***************************************************************************)
products ==
    <<Item("p1",
           \* Trail Runner 2
           <<"T","r","a","i","l"," ","R","u","n","n","e","r"," ","2">>,
           8999,
           <<"S","h","o","e","s">>,
           450,
           \* Lightweight trail running shoes with breathable mesh and strong traction.
           <<"L","i","g","h","t","w","e","i","g","h","t"," ","t","r","a","i","l"," ","r","u",
             "n","n","i","n","g"," ","s","h","o","e","s"," ","w","i","t","h"," ","b","r","e",
             "a","t","h","a","b","l","e"," ","m","e","s","h"," ","a","n","d"," ","s","t","r",
             "o","n","g"," ","t","r","a","c","t","i","o","n",".">>),
      Item("p2",
           \* Urban Jogger
           <<"U","r","b","a","n"," ","J","o","g","g","e","r">>,
           6900,
           <<"S","h","o","e","s">>,
           410,
           \* Comfort-focused everyday running shoes for pavement and treadmill.
           <<"C","o","m","f","o","r","t","-","f","o","c","u","s","e","d"," ","e","v","e","r",
             "y","d","a","y"," ","r","u","n","n","i","n","g"," ","s","h","o","e","s"," ","f",
             "o","r"," ","p","a","v","e","m","e","n","t"," ","a","n","d"," ","t","r","e","a",
             "d","m","i","l","l",".">>),
      Item("p3",
           \* Aero Wireless Headphones
           <<"A","e","r","o"," ","W","i","r","e","l","e","s","s"," ","H","e","a","d","p","h",
             "o","n","e","s">>,
           12999,
           <<"E","l","e","c","t","r","o","n","i","c","s">>,
           430,
           \* Over-ear Bluetooth headphones with ANC and 30-hour battery life.
           <<"O","v","e","r","-","e","a","r"," ","B","l","u","e","t","o","o","t","h"," ","h",
             "e","a","d","p","h","o","n","e","s"," ","w","i","t","h"," ","A","N","C"," ","a",
             "n","d"," ","3","0","-","h","o","u","r"," ","b","a","t","t","e","r","y"," ","l",
             "i","f","e",".">>),
      Item("p4",
           \* Nimbus Earbuds Pro
           <<"N","i","m","b","u","s"," ","E","a","r","b","u","d","s"," ","P","r","o">>,
           9999,
           <<"E","l","e","c","t","r","o","n","i","c","s">>,
           400,
           \* True wireless earbuds with IPX5 water resistance and clear calls.
           <<"T","r","u","e"," ","w","i","r","e","l","e","s","s"," ","e","a","r","b","u","d",
             "s"," ","w","i","t","h"," ","I","P","X","5"," ","w","a","t","e","r"," ","r","e",
             "s","i","s","t","a","n","c","e"," ","a","n","d"," ","c","l","e","a","r"," ","c",
             "a","l","l","s",".">>),
      Item("p5",
           \* All-Weather Jacket
           <<"A","l","l","-","W","e","a","t","h","e","r"," ","J","a","c","k","e","t">>,
           11900,
           <<"A","p","p","a","r","e","l">>,
           460,
           \* Water-resistant shell with breathable lining for daily commuting.
           <<"W","a","t","e","r","-","r","e","s","i","s","t","a","n","t"," ","s","h","e","l",
             "l"," ","w","i","t","h"," ","b","r","e","a","t","h","a","b","l","e"," ","l","i",
             "n","i","n","g"," ","f","o","r"," ","d","a","i","l","y"," ","c","o","m","m","u",
             "t","i","n","g",".">>),
      Item("p6",
           \* Merino Tee
           <<"M","e","r","i","n","o"," ","T","e","e">>,
           3900,
           <<"A","p","p","a","r","e","l">>,
           420,
           \* Soft merino wool T-shirt, odor-resistant and temperature-regulating.
           <<"S","o","f","t"," ","m","e","r","i","n","o"," ","w","o","o","l"," ","T","-","s",
             "h","i","r","t",","," ","o","d","o","r","-","r","e","s","i","s","t","a","n","t",
             " ","a","n","d"," ","t","e","m","p","e","r","a","t","u","r","e","-","r","e","g",
             "u","l","a","t","i","n","g",".">>),
      Item("p7",
           \* Daypack 20L
           <<"D","a","y","p","a","c","k"," ","2","0","L">>,
           5900,
           <<"B","a","g","s">>,
           440,
           \* Minimal everyday backpack with padded laptop sleeve and side pockets.
           <<"M","i","n","i","m","a","l"," ","e","v","e","r","y","d","a","y"," ","b","a","c",
             "k","p","a","c","k"," ","w","i","t","h"," ","p","a","d","d","e","d"," ","l","a",
             "p","t","o","p"," ","s","l","e","e","v","e"," ","a","n","d"," ","s","i","d","e",
             " ","p","o","c","k","e","t","s",".">>),
      Item("p8",
           \* Summit Hiker Pack 30L
           <<"S","u","m","m","i","t"," ","H","i","k","e","r"," ","P","a","c","k"," ","3","0",
             "L">>,
           8900,
           <<"B","a","g","s">>,
           410,
           \* Trail-ready backpack with ventilated back panel and hydration port.
           <<"T","r","a","i","l","-","r","e","a","d","y"," ","b","a","c","k","p","a","c","k",
             " ","w","i","t","h"," ","v","e","n","t","i","l","a","t","e","d"," ","b","a","c",
             "k"," ","p","a","n","e","l"," ","a","n","d"," ","h","y","d","r","a","t","i","o",
             "n"," ","p","o","r","t",".">>),
      Item("p9",
           \* Steel Chrono Watch
           <<"S","t","e","e","l"," ","C","h","r","o","n","o"," ","W","a","t","c","h">>,
           14900,
           <<"W","a","t","c","h","e","s">>,
           430,
           \* Stainless steel chronograph with sapphire glass and 5ATM rating.
           <<"S","t","a","i","n","l","e","s","s"," ","s","t","e","e","l"," ","c","h","r","o",
             "n","o","g","r","a","p","h"," ","w","i","t","h"," ","s","a","p","p","h","i","r",
             "e"," ","g","l","a","s","s"," ","a","n","d"," ","5","A","T","M"," ","r","a","t",
             "i","n","g",".">>),
      Item("p10",
           \* Canvas Belt
           <<"C","a","n","v","a","s"," ","B","e","l","t">>,
           1900,
           <<"A","c","c","e","s","s","o","r","i","e","s">>,
           400,
           \* Durable canvas belt with low-profile buckle for daily wear.
           <<"D","u","r","a","b","l","e"," ","c","a","n","v","a","s"," ","b","e","l","t"," ",
             "w","i","t","h"," ","l","o","w","-","p","r","o","f","i","l","e"," ","b","u","c",
             "k","l","e"," ","f","o","r"," ","d","a","i","l","y"," ","w","e","a","r",".">>)>>

(***************************************************************************)
(* The texts parseQuery is given: phrases typed one after the other,       *)
(* joined by single spaces, up to MaxQueryLen characters.                  *)
(***************************************************************************)
MaxQueryLen == 24

Phrases ==
    {<<"b","e","t","w","e","e","n"," ","9"," ","a","n","d"," ","5">>,
     <<"b","e","t","w","e","e","n"," ","$","2","-","7",".","5">>,
     <<"u","n","d","e","r"," ","$","6">>,
     <<"l","e","s","s"," ","t","h","a","n"," ","3">>,
     <<"o","v","e","r"," ","4">>,
     <<"a","t"," ","l","e","a","s","t"," ","1",".","2","5">>,
     <<"4",".","5"," ","s","t","a","r","s">>,
     <<"G","o","o","d"," ","R","e","v","i","e","w","s">>,
     <<"c","h","e","a","p">>,
     <<"P","r","e","m","i","u","m">>,
     <<"l","o","w","-","c","o","s","t">>,
     <<"l","o","w"," ","c","o","s","t">>,
     <<"l","o","w","c","o","s","t">>,
     <<"t","o","p"," ","t","i","e","r">>,
     <<"h","i","g","h","-","e","n","d">>,
     <<"s","h","o","e","s">>,
     <<"c","h","e","a","p","e","r">>,
     <<"b","a","g","s","!">>,
     <<"1","0","0">>,
     <<"3"," ","s","t","a","r">>}

\* the text after typing phrase w at the end of text t
Typed(t, w) == IF t = <<>> THEN w ELSE t \o <<" ">> \o w

emptyQuery ==
    [maxPrice |-> {}, minPrice |-> {}, minRating |-> {}, keywords |-> <<>>,
     priceIntent |-> "undefined"]

ParseIdle == q = <<>> /\ parsed = emptyQuery
RankIdle  == all = <<>> /\ query = emptyQuery /\ ranked = {}
AppIdle ==
    /\ nlpQuery = <<>> /\ category = <<>> /\ maxPrice = {} /\ minRating = {}
    /\ baseFiltered = <<>> /\ finalList = <<>>

(***************************************************************************)
(* App: the state of the component and its three memoized values           *)
(***************************************************************************)
\* Array.from(new Set(products.map(p => p.category)))
categories == {products[i].category : i \in DOMAIN products}

\* the predicate of products.filter in baseFiltered
passesFacets(p, cat, maxP, minR) ==
    /\ ~(cat # <<>> /\ p.category # cat)
    /\ ~(maxP # {} /\ \E x \in maxP : p.price > x)
    /\ ~(minR # {} /\ \E x \in minR : p.rating < x)

facetFiltered(cat, maxP, minR) ==
    LET keep(p) == passesFacets(p, cat, maxP, minR)
    IN  SelectSeq(products, keep)

\* the body of the finalList memo
finalListOf(base, text) ==
    IF Len(trim(text)) = 0 THEN base ELSE applyAIQuery(base, text)

\* the array baseFiltered holds once finalList has been computed from it
baseAfter(base, text) ==
    IF Len(trim(text)) = 0 THEN base ELSE inputAfter(base, text)

\* One render after a state change.  A memo is computed again only when one
\* of its dependencies changed: baseFiltered on [category, maxPrice,
\* minRating], finalList on [baseFiltered, nlpQuery].
Render ==
    LET facetsChanged == <<category', maxPrice', minRating'>> # <<category, maxPrice, minRating>>
    IN  \E base \in {IF facetsChanged THEN facetFiltered(category', maxPrice', minRating')
                      ELSE baseFiltered} :
            IF facetsChanged \/ nlpQuery' # nlpQuery
            THEN /\ finalList' = finalListOf(base, nlpQuery')
                 /\ baseFiltered' = baseAfter(base, nlpQuery')
            ELSE UNCHANGED <<baseFiltered, finalList>>

\* what the search box and the facet inputs are given
MaxTyped == 12
FacetPrices == {5000}
FacetRatings == {450}
TypedPhrases ==
    {<<"s","h","o","e","s">>,
     <<"c","h","e","a","p">>,
     <<"u","n","d","e","r"," ","$","5","0">>,
     <<"l","o","w"," ","c","o","s","t">>,
     <<"z","z","z">>,
     <<"4",".","5"," ","s","t","a","r","s">>}

AppInit ==
    /\ nlpQuery = <<>>
    /\ category = <<>>
    /\ maxPrice = {}
    /\ minRating = {}
    /\ baseFiltered = facetFiltered(<<>>, {}, {})
    /\ finalList = finalListOf(facetFiltered(<<>>, {}, {}), <<>>)

\* onChange of the search box: a phrase is typed, or the box is emptied or
\* left holding white space
SetNlpQuery ==
    /\ \E text \in {Typed(nlpQuery, w) : w \in TypedPhrases} \cup {<<>>, <<" ">>} :
          /\ Len(text) <= MaxTyped
          /\ nlpQuery' = text
    /\ UNCHANGED <<category, maxPrice, minRating>>
    /\ Render
    /\ UNCHANGED <<parseVars, rankVars>>

\* onChange of the category select
SetCategory ==
    /\ \E c \in {<<>>} \cup categories : category' = c
    /\ UNCHANGED <<nlpQuery, maxPrice, minRating>>
    /\ Render
    /\ UNCHANGED <<parseVars, rankVars>>

\* onChange of the Max Price input
SetMaxPrice ==
    /\ \E v \in {{}} \cup {{x} : x \in FacetPrices} : maxPrice' = v
    /\ UNCHANGED <<nlpQuery, category, minRating>>
    /\ Render
    /\ UNCHANGED <<parseVars, rankVars>>

\* onChange of the Min Rating input
SetMinRating ==
    /\ \E v \in {{}} \cup {{x} : x \in FacetRatings} : minRating' = v
    /\ UNCHANGED <<nlpQuery, category, maxPrice>>
    /\ Render
    /\ UNCHANGED <<parseVars, rankVars>>

Init == AppInit /\ ParseIdle /\ RankIdle
Next == SetNlpQuery \/ SetCategory \/ SetMaxPrice \/ SetMinRating
Spec == Init /\ [][Next]_vars

(***************************************************************************)
(* parseQuery on its own                                                   *)
(***************************************************************************)
ParseInit ==
    /\ q = <<>>
    /\ parsed = parseQuery(<<>>)

\* one call of parseQuery, on the text with one more phrase typed
ParseQuery ==
    /\ \E w \in Phrases :
          /\ Len(Typed(q, w)) <= MaxQueryLen
          /\ q' = Typed(q, w)
          /\ parsed' = parseQuery(q')
    /\ UNCHANGED <<rankVars, appVars>>

InitParse == ParseInit /\ RankIdle /\ AppIdle
SpecParse == InitParse /\ [][ParseQuery]_vars

(***************************************************************************)
(* applyAIQuery on its own, from the parsed query on                       *)
(***************************************************************************)
RankInit ==
    /\ all \in ItemSeqs(MaxItems)
    /\ query \in Queries
    /\ ranked = {}

\* one call: ranked holds what it returns, all what it leaves in its input
Rank ==
    /\ ranked = {}
    /\ ranked' = {rank(all, query)}
    /\ all' = inputAfterRank(all, query)
    /\ UNCHANGED <<query, parseVars, appVars>>

InitRank == RankInit /\ ParseIdle /\ AppIdle
SpecRank == InitRank /\ [][Rank]_vars

(***************************************************************************)
(* Properties of applyAIQuery, stated on the states of SpecRank: `all` and *)
(* `query` are the arguments, `ranked` holds the returned array once the   *)
(* call has been made.                                                     *)
(***************************************************************************)
Returned == ranked # {}
Result == CHOOSE r \in ranked : TRUE

\* the candidates with their score and nprice, by position in `all`
Candidates == {mapScored(all, query)}
SurvivorsOf(sc) == {i \in DOMAIN sc : ScoreGt(sc[i].s, ScoreOf(5000))}

Occurrences(xs, x) == Cardinality({k \in DOMAIN xs : xs[k] = x})

\* C1: when the input is not empty and no item scores above 0.5, the call
\* returns the input itself: the same items in their original order.
FallbackLaw ==
    (Returned /\ all # <<>>) =>
        \A sc \in Candidates : SurvivorsOf(sc) = {} => Result = all

\* a call on two different items, none above 0.5, that ranking would reorder
FallbackReached ==
    \E sc \in Candidates :
        /\ Returned /\ SurvivorsOf(sc) = {} /\ Len(all) >= 2
        /\ \E i \in DOMAIN all : \E j \in DOMAIN all :
              i < j /\ ScoreGt(sc[j].s, sc[i].s)
        /\ Result = all

\* C9: when at least one item scores above 0.5 the result holds exactly the
\* items whose score is above 0.5, each as often as it is in the input, and
\* nothing else; an item that scores exactly 0.5 is left out.
ThresholdFilter ==
    Returned => \A sc \in Candidates : \A kept \in {SurvivorsOf(sc)} :
        kept # {} =>
            /\ Len(Result) = Cardinality(kept)
            /\ \A k \in DOMAIN Result : \E i \in kept : Result[k] = all[i]
            /\ \A i \in DOMAIN all :
                  Occurrences(Result, all[i]) =
                      IF i \in kept
                      THEN Cardinality({j \in kept : all[j] = all[i]})
                      ELSE 0

\* a call where one item scores exactly 0.5 and is dropped while another
\* item is kept, and a kept item occurs twice
ThresholdReached ==
    \E sc \in Candidates :
        /\ Returned /\ SurvivorsOf(sc) # {}
        /\ \E i \in DOMAIN all :
              ScoreEq(sc[i].s, ScoreOf(5000)) /\ Occurrences(Result, all[i]) = 0
        /\ \E k \in DOMAIN Result : Occurrences(Result, Result[k]) = 2

\* the lexicographic key of C3: candidate x goes strictly before y
KeyBefore(x, y) ==
    LET np == FracCmp(x.nprice, y.nprice)
    IN  \/ ScoreGt(x.s, y.s)
        \/ /\ ScoreEq(x.s, y.s)
           /\ \/ query.priceIntent = "high" /\ np = 1
              \/ query.priceIntent = "low" /\ np = -1
              \/ /\ query.priceIntent \in {"high", "low"} => np = 0
                 /\ \/ x.p.rating > y.p.rating
                    \/ x.p.rating = y.p.rating /\ x.p.price < y.p.price
KeyTie(x, y) == ~KeyBefore(x, y) /\ ~KeyBefore(y, x)

\* where the stable order by that key puts candidate i among the kept ones
PlaceOf(sc, kept, i) ==
    1 + Cardinality({j \in kept :
                        KeyBefore(sc[j], sc[i]) \/ (KeyTie(sc[j], sc[i]) /\ j < i)})

\* C3: the kept items come out ordered by the key (score descending, then
\* nprice descending under "high" or ascending under "low", then rating
\* descending, then price ascending), and items whose keys tie keep the
\* relative order they had in the input.
RankedOrder ==
    Returned => \A sc \in Candidates : \A kept \in {SurvivorsOf(sc)} :
        kept # {} =>
            /\ Len(Result) = Cardinality(kept)
            /\ \A i \in kept : \A place \in {PlaceOf(sc, kept, i)} :
                  place \in DOMAIN Result /\ Result[place] = all[i]

\* a call whose three items tie on score: the rating decides between two of
\* them and the two others, equal on the whole key, stay in input order
RankedOrderReached ==
    \E sc \in Candidates :
        /\ Returned /\ Len(all) = 3 /\ SurvivorsOf(sc) = {1, 2, 3}
        /\ ScoreEq(sc[1].s, sc[2].s) /\ ScoreEq(sc[2].s, sc[3].s)
        /\ KeyTie(sc[1], sc[3]) /\ all[1] # all[3]
        /\ all[2].rating < all[3].rating
        /\ Result = <<all[1], all[3], all[2]>>

\* the sum of C4 with the three-times-nprice term kept apart, in
\* ten-thousandths: the part that does not depend on nprice ...
FlatScore(p, qy) ==
    LET found(hay) ==
            Cardinality({k \in DOMAIN qy.keywords : includes(hay, qy.keywords[k])})
        cat == Str(toLowerCase(p.category))
    IN  25000 * With(toLowerCase(p.name \o <<" ">> \o p.description \o <<" ">> \o p.category),
                     found)
        + (IF cat \in Range(CATEGORY_HINTS)
              /\ cat \in {Str(qy.keywords[k]) : k \in DOMAIN qy.keywords}
           THEN 25000 ELSE 0)
        + (IF \E x \in qy.maxPrice : p.price <= x THEN 20000 ELSE 0)
        + (IF \E x \in qy.minPrice : p.price >= x THEN 15000 ELSE 0)
        + (IF \E x \in qy.minRating : p.rating >= x THEN 20000 ELSE 0)
        + 20 * p.rating - p.price
\* ... and the numerator over nprice.den of the part that does
IntentShare(qy, nprice) ==
    IF qy.priceIntent = "high" THEN nprice.num
    ELSE IF qy.priceIntent = "low" THEN nprice.den - nprice.num
    ELSE 0

ScoreIsSum(p, qy, nprice) ==
    LET share == 30000 * IntentShare(qy, nprice)
        sum == [u |-> FlatScore(p, qy) + share \div nprice.den,
                n |-> share % nprice.den, d |-> nprice.den]
    IN  ScoreEq(scoreProduct(p, qy, nprice), sum)

\* the query, the query with its three bounds moved onto the item's price
\* and rating, and the query with each of them one hundredth beyond the item
AroundItem(p, qy) ==
    {qy,
     [qy EXCEPT !.maxPrice = {p.price}, !.minPrice = {p.price}, !.minRating = {p.rating}],
     [qy EXCEPT !.maxPrice = {p.price - 1}, !.minPrice = {p.price + 1},
                !.minRating = {p.rating + 1}]}

\* C4: a score is exactly 2.5 per keyword entry found in the lower-cased
\* name, description and category, plus 2.5 for a hinted category among the
\* keywords, plus 2 for price <= maxPrice, 1.5 for price >= minPrice and 2
\* for rating >= minRating when the bound is present (an item on the bound
\* gets the bonus, one beyond it does not), plus 3*nprice under "high" or
\* 3*(1-nprice) under "low", plus 0.2*rating, minus 0.01*price.
ScoreFormula ==
    Returned =>
        \A sc \in Candidates : \A x \in {[p |-> sc[i].p, nprice |-> sc[i].nprice] : i \in DOMAIN sc} :
            \A qy \in AroundItem(x.p, query) : ScoreIsSum(x.p, qy, x.nprice)

\* a call with a repeated keyword found in an item, an item priced exactly
\* at maxPrice that got its bonus and an item beyond maxPrice that did not
ScoreFormulaReached ==
    \E sc \in Candidates :
        /\ Returned /\ Len(query.keywords) = 2 /\ query.keywords[1] = query.keywords[2]
        /\ \E i \in DOMAIN all :
              /\ query.maxPrice = {all[i].price}
              /\ maxPriceBonus(all[i], query) = 20000
              /\ sc[i].s.u >= 70000
        /\ \E j \in DOMAIN all :
              /\ \E x \in query.maxPrice : all[j].price > x
              /\ maxPriceBonus(all[j], query) = 0

RatingFloors == {250, 450, 500}
WithFloor(r) == [query EXCEPT !.minRating = {r}]
ItemsOf(xs) == {xs[k] : k \in DOMAIN xs}

\* C2 as stated: with everything else fixed, the items returned under a
\* higher minRating are among the items returned under a lower one.
RatingMonotone ==
    (Returned /\ all # <<>>) =>
        \A r \in RatingFloors :
            /\ (\E m \in query.minRating : m <= r) =>
                   ItemsOf(rank(all, WithFloor(r))) \subseteq ItemsOf(Result)
            /\ (\E m \in query.minRating : r <= m) =>
                   ItemsOf(Result) \subseteq ItemsOf(rank(all, WithFloor(r)))

\* C2 amended: the same, provided some item scores above 0.5 under the
\* higher minRating, so that the call under it does not fall back to the
\* whole input.
RatingMonotoneAboveThreshold ==
    (Returned /\ all # <<>>) =>
        \A r \in RatingFloors : \A sc \in Candidates :
            /\ ((\E m \in query.minRating : m <= r) /\ scoredOf(all, WithFloor(r)) # <<>>) =>
                   ItemsOf(rank(all, WithFloor(r))) \subseteq ItemsOf(Result)
            /\ ((\E m \in query.minRating : r <= m) /\ SurvivorsOf(sc) # {}) =>
                   ItemsOf(Result) \subseteq ItemsOf(rank(all, WithFloor(r)))

\* a call whose result loses an item when minRating is raised, the call
\* under the raised minRating keeping at least one item above 0.5
RatingMonotoneReached ==
    /\ Returned /\ query.minRating # {}
    /\ \E r \in RatingFloors :
          /\ \E m \in query.minRating : m < r
          /\ scoredOf(all, WithFloor(r)) # <<>>
          /\ ItemsOf(rank(all, WithFloor(r))) # ItemsOf(Result)
          /\ ItemsOf(rank(all, WithFloor(r))) \subseteq ItemsOf(Result)

(***************************************************************************)
(* Properties of parseQuery, stated on the states of SpecParse: `q` is the *)
(* text given and `parsed` the Query returned for it.                      *)
(***************************************************************************)
Says(text, min, max) ==
    q = text => parsed.minPrice = min /\ parsed.maxPrice = max

\* C5: range detection takes the first of between, under-family and
\* over-family that is present.  A between phrase gives minPrice = min(X,Y)
\* and maxPrice = max(X,Y) whatever under or over phrase there is; else an
\* under phrase gives maxPrice = X and no minPrice even beside an over
\* phrase; else an over phrase gives minPrice = X and no maxPrice; else
\* both are absent.  Whenever both are set minPrice <= maxPrice.
RangeFirstMatchWins ==
    /\ \A s \in {trim(q)} :
       \A b \in {between(s)} : \A u \in {under(s)} : \A o \in {over(s)} :
          /\ \A m \in b :
                \E lo \in {m[1], m[2]} : \E hi \in {m[1], m[2]} :
                    /\ lo <= hi /\ {lo, hi} = {m[1], m[2]}
                    /\ parsed.minPrice = {lo} /\ parsed.maxPrice = {hi}
          /\ b = {} =>
                \A m \in u : parsed.maxPrice = {m[1]} /\ parsed.minPrice = {}
          /\ (b = {} /\ u = {}) =>
                \A m \in o : parsed.minPrice = {m[1]} /\ parsed.maxPrice = {}
          /\ (b = {} /\ u = {} /\ o = {}) =>
                parsed.minPrice = {} /\ parsed.maxPrice = {}
    /\ \A lo \in parsed.minPrice : \A hi \in parsed.maxPrice : lo <= hi
    /\ Says(<<"b","e","t","w","e","e","n"," ","9"," ","a","n","d"," ","5">>,
            {500}, {900})
    /\ Says(<<"b","e","t","w","e","e","n"," ","9"," ","a","n","d"," ","5"," ","u","n","d","e","r"," ","$","6">>,
            {500}, {900})
    /\ Says(<<"u","n","d","e","r"," ","$","6"," ","b","e","t","w","e","e","n"," ","$","2","-","7",".","5">>,
            {200}, {750})
    /\ Says(<<"o","v","e","r"," ","4"," ","u","n","d","e","r"," ","$","6">>,
            {}, {600})
    /\ Says(<<"u","n","d","e","r"," ","$","6"," ","o","v","e","r"," ","4">>,
            {}, {600})
    /\ Says(<<"l","e","s","s"," ","t","h","a","n"," ","3">>,
            {}, {300})
    /\ Says(<<"a","t"," ","l","e","a","s","t"," ","1",".","2","5">>,
            {125}, {})
    /\ Says(<<"s","h","o","e","s">>,
            {}, {})

\* a text with a between phrase whose bounds come in descending order and
\* an under phrase behind it
RangeFirstMatchReached ==
    /\ \E m \in between(trim(q)) : m[1] > m[2]
    /\ under(trim(q)) # {}
    /\ parsed.minPrice = {500} /\ parsed.maxPrice = {900}

\* the tokens the price-intent phrases of s turn into
IntentSpans(s) ==
    {<<p, HighEnd(s, p)>> : p \in {i \in 1..Len(s) : HighEnd(s, i) # 0}}
    \cup {<<p, LowEnd(s, p)>> : p \in {i \in 1..Len(s) : LowEnd(s, i) # 0}}
IntentTokens(s) ==
    UNION {ItemsOf(split(SubSeq(toLowerCase(s), span[1], span[2] - 1)))
              : span \in IntentSpans(s)}
IntentWords(s) == {stripHyphens(w) : w \in IntentTokens(s)}

IsNumeral(w) ==
    /\ w # <<>>
    /\ \A i \in DOMAIN w : IsDigit(w[i]) \/ w[i] = "."
    /\ Cardinality({i \in DOMAIN w : w[i] = "."}) <= 1
    /\ IsDigit(w[1]) /\ IsDigit(w[Len(w)])

\* C6: no keyword is empty, a stopword, a pure number or a price-intent
\* vocabulary word; a phrase that sets priceIntent, in its hyphenated, joined
\* or white-space form, contributes no token to keywords.
KeywordsExcludeIntentWords ==
    \A words \in {IntentWords(trim(q))} :
        \A k \in DOMAIN parsed.keywords :
            /\ parsed.keywords[k] # <<>>
            /\ Str(parsed.keywords[k]) \notin STOPWORDS
            /\ ~IsNumeral(parsed.keywords[k])
            /\ parsed.keywords[k] \notin words

\* C7: priceIntent is "high" whenever the expensive vocabulary matches, the
\* cheap one matching as well or not; it is "low" exactly when the cheap
\* vocabulary matches and the expensive one does not; it is absent exactly
\* when neither matches.  scoreProduct then adds at most one of 3*nprice
\* and 3*(1-nprice): on the catalog's last product at nprice = 1/4 the
\* price-intent gain is 0.75, 2.25 or 0, never 3.
PriceIntentPrecedence ==
    /\ \A hi \in {wantsHigh(trim(q))} : \A lo \in {wantsLow(trim(q))} :
          /\ hi => parsed.priceIntent = "high"
          /\ parsed.priceIntent = "low" <=> (lo /\ ~hi)
          /\ parsed.priceIntent = "undefined" <=> (~lo /\ ~hi)
          /\ \A with \in {scoreProduct(products[Len(products)], parsed,
                                       [num |-> 1, den |-> 4])} :
             \A without \in {scoreProduct(products[Len(products)],
                                          [parsed EXCEPT !.priceIntent = "undefined"],
                                          [num |-> 1, den |-> 4])} :
                /\ with.n = 0 /\ without.n = 0
                /\ with.u - without.u = IF hi THEN 7500 ELSE IF lo THEN 22500 ELSE 0
    /\ q = <<"c","h","e","a","p"," ","P","r","e","m","i","u","m">>
           => parsed.priceIntent = "high"
    /\ q = <<"P","r","e","m","i","u","m"," ","c","h","e","a","p">>
           => parsed.priceIntent = "high"
    /\ q = <<"l","o","w"," ","c","o","s","t"," ","t","o","p"," ","t","i","e","r">>
           => parsed.priceIntent = "high"
    /\ q = <<"c","h","e","a","p">>
           => parsed.priceIntent = "low"
    /\ q = <<"l","o","w"," ","c","o","s","t">>
           => parsed.priceIntent = "low"
    /\ q = <<"c","h","e","a","p","e","r">>
           => parsed.priceIntent = "undefined"
    /\ q = <<"s","h","o","e","s">>
           => parsed.priceIntent = "undefined"

\* a text that matches both vocabularies, the cheap word first
PriceIntentBothReached ==
    /\ wantsHigh(trim(q)) /\ wantsLow(trim(q))
    /\ LowEnd(trim(q), 1) # 0
    /\ parsed.priceIntent = "high"

(***************************************************************************)
(* Properties of the page, stated on the states of Spec.                   *)
(***************************************************************************)
\* a product passes the facets now selected
Shown(p) ==
    /\ category = <<>> \/ p.category = category
    /\ \A x \in maxPrice : p.price <= x
    /\ \A x \in minRating : p.rating >= x
Catalog == SelectSeq(products, Shown)
Blank == \A i \in DOMAIN nlpQuery : IsSpace(nlpQuery[i])

\* C8: after any sequence of edits of the query text and of the facets, the
\* displayed list is empty exactly when no product of the catalog passes
\* the facets; the query text alone never empties it, and every displayed
\* product passes the facets.
EmptyOnlyByFacets ==
    /\ finalList = <<>> <=> \A i \in DOMAIN products : ~Shown(products[i])
    /\ \A k \in DOMAIN finalList :
          Shown(finalList[k]) /\ \E i \in DOMAIN products : products[i] = finalList[k]

\* a query text under which no product left by the facets scores above 0.5,
\* and the products left by the facets are all displayed
EmptyOnlyByFacetsReached ==
    /\ ~Blank /\ baseFiltered # <<>>
    /\ scoredOf(baseFiltered, parseQuery(nlpQuery)) = <<>>
    /\ finalList = Catalog

====
